---------------------------- MODULE Spec2Model ----------------------------
(* DomPDF (src/DomPDF.py): extraction of the fields of a "Constancia de      *)
(* Situacion Fiscal" from the text of a PDF, and the batch loop that runs it *)
(* over a folder.                                                            *)
(*                                                                           *)
(* A Python str is modelled as a sequence of characters, each character a    *)
(* one-element token: "A", " ", "\n".  An accented letter is written with a  *)
(* trailing apostrophe ("o'" is o-acute), so that the module stays ASCII.    *)
EXTENDS Integers, Sequences, FiniteSets, TLC

(***************************************************************************)
(* Characters and the str methods the program uses.                        *)
(***************************************************************************)

\* The characters str.strip() removes and \s matches, among those of the model.
Whitespace == {" ", "\n"}

\* The characters [\w] matches (a str pattern: Unicode letters, digits, "_").
WordChars ==
  {"A", "B", "C", "D", "E", "F", "G", "H", "I", "J", "K", "L", "M", "N", "O", "P", "Q", "R",
   "S", "T", "U", "V", "W", "X", "Y", "Z", "a", "b", "c", "d", "e", "f", "g", "h", "i", "j",
   "k", "l", "m", "n", "o", "p", "q", "r", "s", "t", "u", "v", "w", "x", "y", "z", "0", "1",
   "2", "3", "4", "5", "6", "7", "8", "9", "_", "a'", "e'", "i'", "o'", "u'", "A'", "E'",
   "I'", "O'", "U'"}

\* s[pos .. pos+Len(sub)-1] = sub
StartsWithAt(s, sub, pos) ==
  /\ pos + Len(sub) - 1 <= Len(s)
  /\ \A j \in 1..Len(sub) : s[pos + j - 1] = sub[j]

\* sub in s
Contains(s, sub) == \E pos \in 1..(Len(s) + 1) : StartsWithAt(s, sub, pos)

Min(S) == CHOOSE x \in S : \A y \in S : x <= y

Max(S) == CHOOSE x \in S : \A y \in S : x >= y

\* s.find(sub, pos - 1) + 1: the first occurrence of sub from pos on; 0 when absent
FindFrom(s, sub, pos) ==
  LET hits == {p \in pos..(Len(s) + 1) : StartsWithAt(s, sub, p)}
  IN IF hits = {} THEN 0 ELSE Min(hits)

\* s[:s.find(sep)] in its place: find gives -1 for no occurrence, and the
\* slice then drops the last character
SplitFirstByFind(s, sep) ==
  LET at == FindFrom(s, sep, 1)
  IN IF at = 0 THEN SubSeq(s, 1, Len(s) - 1) ELSE SubSeq(s, 1, at - 1)

\* s.split(sep)[0]: what precedes the first occurrence of sep, all of s without one
SplitFirst(s, sep) ==
  LET at == FindFrom(s, sep, 1)
  IN IF at = 0 THEN s ELSE SubSeq(s, 1, at - 1)

\* s.replace(old, ""): the occurrences of old are found left to right, without
\* overlap, in s as it was; what their removal joins is not looked at again.
\* With old empty, str.replace inserts "" between the characters: s unchanged.
RECURSIVE ReplaceFrom(_, _, _)
ReplaceFrom(s, old, pos) ==
  LET at == FindFrom(s, old, pos)
  IN IF at = 0 THEN SubSeq(s, pos, Len(s))
     ELSE SubSeq(s, pos, at - 1) \o ReplaceFrom(s, old, at + Len(old))

Replace(s, old) == IF old = <<>> THEN s ELSE ReplaceFrom(s, old, 1)

\* s.strip()
LStrip(s) ==
  SubSeq(s, Min({q \in 1..(Len(s) + 1) : q = Len(s) + 1 \/ s[q] \notin Whitespace}), Len(s))

RStrip(s) ==
  SubSeq(s, 1, Max({q \in 0..Len(s) : q = 0 \/ s[q] \notin Whitespace}))

Strip(s) == RStrip(LStrip(s))

(***************************************************************************)
(* The regular expressions of the rule catalog.  A pattern is a sequence   *)
(* of nodes: a literal, a greedy X* outside a group, or a capture group    *)
(* holding one X* (greedy) or X*? (lazy), the group optional or not.       *)
(***************************************************************************)

Lit(s) == [t |-> "lit", s |-> s, cls |-> "", g |-> 0, lazy |-> FALSE, opt |-> FALSE]

Star(cls) == [t |-> "star", s |-> <<>>, cls |-> cls, g |-> 0, lazy |-> FALSE, opt |-> FALSE]

Grp(g, cls, lazy, opt) ==
  [t |-> "grp", s |-> <<>>, cls |-> cls, g |-> g, lazy |-> lazy, opt |-> opt]

\* "s" is \s, "n" is \n, "w" is [\w], "N" is [^\n], "." is . (no DOTALL)
InClass(cls, c) ==
  CASE cls = "s" -> c \in Whitespace
    [] cls = "n" -> c = "\n"
    [] cls = "w" -> c \in WordChars
    [] OTHER -> c # "\n"

\* how many characters of the class follow from pos
Run(cls, txt, pos) ==
  Min({q \in pos..(Len(txt) + 1) : q = Len(txt) + 1 \/ ~InClass(cls, txt[q])}) - pos

\* a group that took no part in the match: group(g) is None
NoSpan == <<0, 0>>

NoCaps == <<NoSpan, NoSpan>>

NoMatch == [ok |-> FALSE, end |-> 0, caps |-> NoCaps]

\* The backtracking matcher: the match of pat[k..] at pos that the engine finds
\* first.  Of the lengths an X* can take with the rest of the pattern matching,
\* a greedy one takes the longest and a lazy one the shortest (the first that
\* backtracking reaches); an optional group is tried before it is skipped.
RECURSIVE MatchAt(_, _, _, _, _)
MatchAt(pat, k, txt, pos, caps) ==
  IF k > Len(pat) THEN [ok |-> TRUE, end |-> pos, caps |-> caps]
  ELSE LET n == pat[k]
           With(j) == IF n.t = "grp" THEN [caps EXCEPT ![n.g] = <<pos, pos + j>>] ELSE caps
           lens == {j \in 0..Run(n.cls, txt, pos) : MatchAt(pat, k + 1, txt, pos + j, caps).ok}
           len == IF n.lazy THEN Min(lens) ELSE Max(lens)
       IN IF n.t = "lit"
          THEN IF StartsWithAt(txt, n.s, pos)
               THEN MatchAt(pat, k + 1, txt, pos + Len(n.s), caps)
               ELSE NoMatch
          ELSE IF lens # {} THEN MatchAt(pat, k + 1, txt, pos + len, With(len))
          ELSE IF n.t = "grp" /\ n.opt THEN MatchAt(pat, k + 1, txt, pos, caps)
          ELSE NoMatch

\* re.search: the match at the leftmost position that has one
search(patron, texto_) ==
  LET starts == {p \in 1..(Len(texto_) + 1) : MatchAt(patron, 1, texto_, p, NoCaps).ok}
  IN IF starts = {} THEN NoMatch ELSE MatchAt(patron, 1, texto_, Min(starts), NoCaps)

\* len(coincidencia.groups())
NumGroups(patron) == Cardinality({k \in 1..Len(patron) : patron[k].t = "grp"})

\* coincidencia.group(g) is None
IsNone(m, g) == m.caps[g] = NoSpan

\* coincidencia.group(g), a str
group(m, txt, g) == SubSeq(txt, m.caps[g][1], m.caps[g][2] - 1)

patrones ==
  <<\* src/DomPDF.py line 50: CE'DULA DE IDENTIFICACIO'N FISCAL \n([\w]*)?
     [campo |-> "Ce'dula de Identificacio'n fiscal",
      patron |-> <<Lit(<<"C", "E'", "D", "U", "L", "A", " ", "D", "E", " ", "I", "D", "E", "N", "T", "I", "F",
                        "I", "C", "A", "C", "I", "O'", "N", " ", "F", "I", "S", "C", "A", "L", " ", "\n">>),
                  Grp(1, "w", FALSE, TRUE)>>],
     \* src/DomPDF.py line 51: CURP:\n([\w]*)?
     [campo |-> "CURP",
      patron |-> <<Lit(<<"C", "U", "R", "P", ":", "\n">>),
                  Grp(1, "w", FALSE, TRUE)>>],
     \* src/DomPDF.py line 52: RFC:\n([\w]*)?
     [campo |-> "RFC",
      patron |-> <<Lit(<<"R", "F", "C", ":", "\n">>),
                  Grp(1, "w", FALSE, TRUE)>>],
     \* src/DomPDF.py line 53: Registro\s*Federal\s*de\s*Contribuyentes\n([^\n]*)?\nNombre,\s*denominacio'n\s*o\s*razo'n
     [campo |-> "Nombre o Razo'n Social",
      patron |-> <<Lit(<<"R", "e", "g", "i", "s", "t", "r", "o">>),
                  Star("s"),
                  Lit(<<"F", "e", "d", "e", "r", "a", "l">>),
                  Star("s"),
                  Lit(<<"d", "e">>),
                  Star("s"),
                  Lit(<<"C", "o", "n", "t", "r", "i", "b", "u", "y", "e", "n", "t", "e", "s", "\n">>),
                  Grp(1, "N", FALSE, TRUE),
                  Lit(<<"\n", "N", "o", "m", "b", "r", "e", ",">>),
                  Star("s"),
                  Lit(<<"d", "e", "n", "o", "m", "i", "n", "a", "c", "i", "o'", "n">>),
                  Star("s"),
                  Lit(<<"o">>),
                  Star("s"),
                  Lit(<<"r", "a", "z", "o'", "n">>)>>],
     \* src/DomPDF.py line 54: Co'digo\s*Postal:\s*(.*?)?\nTipo\s*de\s*Vialidad:
     [campo |-> "Co'digo Postal",
      patron |-> <<Lit(<<"C", "o'", "d", "i", "g", "o">>),
                  Star("s"),
                  Lit(<<"P", "o", "s", "t", "a", "l", ":">>),
                  Star("s"),
                  Grp(1, ".", TRUE, TRUE),
                  Lit(<<"\n", "T", "i", "p", "o">>),
                  Star("s"),
                  Lit(<<"d", "e">>),
                  Star("s"),
                  Lit(<<"V", "i", "a", "l", "i", "d", "a", "d", ":">>)>>],
     \* src/DomPDF.py line 55: Tipo\s*de\s*Vialidad:\s*(.*?)?\nNombre\s*de\s*Vialidad:
     [campo |-> "Tipo Vialidad",
      patron |-> <<Lit(<<"T", "i", "p", "o">>),
                  Star("s"),
                  Lit(<<"d", "e">>),
                  Star("s"),
                  Lit(<<"V", "i", "a", "l", "i", "d", "a", "d", ":">>),
                  Star("s"),
                  Grp(1, ".", TRUE, TRUE),
                  Lit(<<"\n", "N", "o", "m", "b", "r", "e">>),
                  Star("s"),
                  Lit(<<"d", "e">>),
                  Star("s"),
                  Lit(<<"V", "i", "a", "l", "i", "d", "a", "d", ":">>)>>],
     \* src/DomPDF.py line 56: Nombre\s*de\s*Vialidad:\s*(.*?)?\s*Nu'mero\s*Exterior:
     [campo |-> "Nombre Vialidad",
      patron |-> <<Lit(<<"N", "o", "m", "b", "r", "e">>),
                  Star("s"),
                  Lit(<<"d", "e">>),
                  Star("s"),
                  Lit(<<"V", "i", "a", "l", "i", "d", "a", "d", ":">>),
                  Star("s"),
                  Grp(1, ".", TRUE, TRUE),
                  Star("s"),
                  Lit(<<"N", "u'", "m", "e", "r", "o">>),
                  Star("s"),
                  Lit(<<"E", "x", "t", "e", "r", "i", "o", "r", ":">>)>>],
     \* src/DomPDF.py line 57: Nu'mero\s*Exterior:\s*([^\n]*)?
     [campo |-> "Nu'mero Exterior",
      patron |-> <<Lit(<<"N", "u'", "m", "e", "r", "o">>),
                  Star("s"),
                  Lit(<<"E", "x", "t", "e", "r", "i", "o", "r", ":">>),
                  Star("s"),
                  Grp(1, "N", FALSE, TRUE)>>],
     \* src/DomPDF.py line 58: Nu'mero\s*Interior:\s*(.*?)?\n*Nombre
     [campo |-> "Nu'mero Interior",
      patron |-> <<Lit(<<"N", "u'", "m", "e", "r", "o">>),
                  Star("s"),
                  Lit(<<"I", "n", "t", "e", "r", "i", "o", "r", ":">>),
                  Star("s"),
                  Grp(1, ".", TRUE, TRUE),
                  Star("n"),
                  Lit(<<"N", "o", "m", "b", "r", "e">>)>>],
     \* src/DomPDF.py line 59: Nombre\s*de\s*la\s*Colonia:\s*([^\n]*)?
     [campo |-> "Nombre Colonia",
      patron |-> <<Lit(<<"N", "o", "m", "b", "r", "e">>),
                  Star("s"),
                  Lit(<<"d", "e">>),
                  Star("s"),
                  Lit(<<"l", "a">>),
                  Star("s"),
                  Lit(<<"C", "o", "l", "o", "n", "i", "a", ":">>),
                  Star("s"),
                  Grp(1, "N", FALSE, TRUE)>>],
     \* src/DomPDF.py line 60: Nombre\s*de\s*la\s*Localidad:\s*(.*?)?\s*Nombre
     [campo |-> "Nombre Localidad",
      patron |-> <<Lit(<<"N", "o", "m", "b", "r", "e">>),
                  Star("s"),
                  Lit(<<"d", "e">>),
                  Star("s"),
                  Lit(<<"l", "a">>),
                  Star("s"),
                  Lit(<<"L", "o", "c", "a", "l", "i", "d", "a", "d", ":">>),
                  Star("s"),
                  Grp(1, ".", TRUE, TRUE),
                  Star("s"),
                  Lit(<<"N", "o", "m", "b", "r", "e">>)>>],
     \* src/DomPDF.py line 61: \s*Territorial:\s*(.*?)?\n(.*?)?\s*Nombre\s*de\s*la\s*Entidad\s*Federativa:
     [campo |-> "Nombre Municipio o Demarcacio'n Territorial",
      patron |-> <<Star("s"),
                  Lit(<<"T", "e", "r", "r", "i", "t", "o", "r", "i", "a", "l", ":">>),
                  Star("s"),
                  Grp(1, ".", TRUE, TRUE),
                  Lit(<<"\n">>),
                  Grp(2, ".", TRUE, TRUE),
                  Star("s"),
                  Lit(<<"N", "o", "m", "b", "r", "e">>),
                  Star("s"),
                  Lit(<<"d", "e">>),
                  Star("s"),
                  Lit(<<"l", "a">>),
                  Star("s"),
                  Lit(<<"E", "n", "t", "i", "d", "a", "d">>),
                  Star("s"),
                  Lit(<<"F", "e", "d", "e", "r", "a", "t", "i", "v", "a", ":">>)>>],
     \* src/DomPDF.py line 62: Nombre\s*de\s*la\s*Entidad\s*Federativa:\s*(.*?)?\s*\n
     [campo |-> "Nombre Entidad Federativa",
      patron |-> <<Lit(<<"N", "o", "m", "b", "r", "e">>),
                  Star("s"),
                  Lit(<<"d", "e">>),
                  Star("s"),
                  Lit(<<"l", "a">>),
                  Star("s"),
                  Lit(<<"E", "n", "t", "i", "d", "a", "d">>),
                  Star("s"),
                  Lit(<<"F", "e", "d", "e", "r", "a", "t", "i", "v", "a", ":">>),
                  Star("s"),
                  Grp(1, ".", TRUE, TRUE),
                  Star("s"),
                  Lit(<<"\n">>)>>],
     \* src/DomPDF.py line 63: Entre\s*Calle:\s*(.*?)?\n(.*?)?\s*Y\s*Calle:
     [campo |-> "Entre Calle",
      patron |-> <<Lit(<<"E", "n", "t", "r", "e">>),
                  Star("s"),
                  Lit(<<"C", "a", "l", "l", "e", ":">>),
                  Star("s"),
                  Grp(1, ".", TRUE, TRUE),
                  Lit(<<"\n">>),
                  Grp(2, ".", TRUE, TRUE),
                  Star("s"),
                  Lit(<<"Y">>),
                  Star("s"),
                  Lit(<<"C", "a", "l", "l", "e", ":">>)>>],
     \* src/DomPDF.py line 64: Y\s*Calle:\s*([^\n]*)?
     [campo |-> "Y Calle",
      patron |-> <<Lit(<<"Y">>),
                  Star("s"),
                  Lit(<<"C", "a", "l", "l", "e", ":">>),
                  Star("s"),
                  Grp(1, "N", FALSE, TRUE)>>],
     \* src/DomPDF.py line 65: Lugar y Fecha de Emisio'n\n*([^\n]*)\n*([^\n]*)?
     [campo |-> "Fecha y lugar de emisio'n",
      patron |-> <<Lit(<<"L", "u", "g", "a", "r", " ", "y", " ", "F", "e", "c", "h", "a", " ", "d", "e", " ", "E",
                        "m", "i", "s", "i", "o'", "n">>),
                  Star("n"),
                  Grp(1, "N", FALSE, FALSE),
                  Star("n"),
                  Grp(2, "N", FALSE, TRUE)>>]>>


(***************************************************************************)
(* extract_fields (lines 31-78) and is_fiscal (lines 79-81).               *)
(***************************************************************************)

\* 'Actividades Economicas:' (line 41)
ActividadesMarker ==
  <<"A", "c", "t", "i", "v", "i", "d", "a", "d", "e", "s", " ", "E", "c", "o", "n", "o'", "m",
    "i", "c", "a", "s", ":">>

\* 'Susdatospersonales ... deDatos' (line 42)
PrivacidadMarker ==
  <<"S", "u", "s", "d", "a", "t", "o", "s", "p", "e", "r", "s", "o", "n", "a", "l", "e", "s",
    " ", "s", "o", "n", "i", "n", "c", "o", "r", "p", "o", "r", "a", "d", "o", "s", " ", "y",
    "p", "r", "o", "t", "e", "g", "i", "d", "o", "s", " ", "e", "n", "l", "o", "s", "s", "i",
    "s", "t", "e", "m", "a", "s", " ", "d", "e", "l", "S", "A", "T", ",", "d", "e", "c", "o",
    "n", "f", "o", "r", "m", "i", "d", "a", "d", " ", "c", "o", "n", "l", "o", "s", "L", "i",
    "n", "e", "a", "m", "i", "e", "n", "t", "o", "s", " ", "d", "e", "P", "r", "o", "t", "e",
    "c", "c", "i", "o'", "n", " ", "d", "e", "D", "a", "t", "o", "s">>

\* 'Pagina  [2] de [n]' for the digit n (lines 43-47)
Footer(n) ==
  <<"P", "a'", "g", "i", "n", "a", " ", " ", "[", "2", "]", " ", "d", "e", " ", "[">> \o <<n, "]">>

\* lines 41-47: two truncations, then the five footers removed, in this order
Normalize(texto_) ==
  LET t1 == SplitFirst(texto_, ActividadesMarker)
      t2 == SplitFirst(t1, PrivacidadMarker)
      t3 == Replace(t2, Footer("2"))
      t4 == Replace(t3, Footer("3"))
      t5 == Replace(t4, Footer("4"))
      t6 == Replace(t5, Footer("5"))
  IN Replace(t6, Footer("6"))

\* 'N/A' (line 76)
NA == <<"N", "/", "A">>

\* the two field names line 73 and line 74 name
FechaCampo == "Fecha y lugar de emisio'n"

RFCCampo == "RFC"

\* A dict is the sequence of its items in insertion order.
HasKey(d, key) == \E j \in 1..Len(d) : d[j].campo = key

Get(d, key) == d[CHOOSE j \in 1..Len(d) : d[j].campo = key].valor

Keys(d) == [j \in 1..Len(d) |-> d[j].campo]

\* d[key] = valor: a key the dict holds keeps its place
Put(d, key, valor) ==
  IF HasKey(d, key)
  THEN [j \in 1..Len(d) |-> IF d[j].campo = key THEN [d[j] EXCEPT !.valor = valor] ELSE d[j]]
  ELSE Append(d, [campo |-> key, valor |-> valor])

\* the value line 72 builds from the groups of a match
GroupValue(m, patron, txt) ==
  IF NumGroups(patron) > 1
  THEN Strip(group(m, txt, 1)) \o <<" ">> \o Strip(group(m, txt, 2))
  ELSE Strip(group(m, txt, 1))

\* line 72 raises AttributeError when a group it strips is None
GroupIsNone(m, patron) ==
  IsNone(m, 1) \/ (NumGroups(patron) > 1 /\ IsNone(m, 2))

\* lines 72-74: the entry of a rule that matched with m
Matched(d, regla, txt, m) ==
  LET d1 == Put(d, regla.campo, GroupValue(m, regla.patron, txt))
  IN IF GroupIsNone(m, regla.patron) THEN [raised |-> TRUE, resultado |-> d]
     ELSE IF regla.campo # FechaCampo THEN [raised |-> FALSE, resultado |-> d1]
     ELSE IF ~HasKey(d1, RFCCampo) THEN [raised |-> TRUE, resultado |-> d1]
     ELSE [raised |-> FALSE,
           resultado |-> Put(d1, regla.campo, Replace(Get(d1, regla.campo), Get(d1, RFCCampo)))]

\* lines 75-76 left out: a rule that did not match leaves no entry
UnmatchedNoEntry(d, regla) == [raised |-> FALSE, resultado |-> d]

\* lines 75-76: the entry of a rule that did not match
Unmatched(d, regla) == [raised |-> FALSE, resultado |-> Put(d, regla.campo, NA)]

\* One iteration of the loop of line 69 (lines 70-76) on the dict d:
\* the dict after it, or raised when the iteration raises.
ExtractCampo(d, regla, txt) ==
  LET m == search(regla.patron, txt)
  IN IF m.ok THEN Matched(d, regla, txt, m) ELSE Unmatched(d, regla)

\* the loop of lines 68-78 from rule k on
RECURSIVE ExtractLoop(_, _, _)
ExtractLoop(txt, k_, d) ==
  IF k_ > Len(patrones) THEN [raised |-> FALSE, resultado |-> d]
  ELSE LET r == ExtractCampo(d, patrones[k_], txt)
       IN IF r.raised THEN r ELSE ExtractLoop(txt, k_ + 1, r.resultado)

extract_fields(texto_) == ExtractLoop(Normalize(texto_), 1, <<>>)

\* "CONSTANCIA DE SITUACION FISCAL" (line 81)
FiscalMarker ==
  <<"C", "O", "N", "S", "T", "A", "N", "C", "I", "A", " ", "D", "E", " ", "S", "I", "T", "U",
    "A", "C", "I", "O'", "N", " ", "F", "I", "S", "C", "A", "L">>

\* texto.startswith(marker) in the place of marker in texto
is_fiscal_startswith(texto_) == StartsWithAt(texto_, FiscalMarker, 1)

is_fiscal(texto_) == Contains(texto_, FiscalMarker)


(***************************************************************************)
(* process_pdfs (lines 145-194): what it computes on the way.              *)
(***************************************************************************)

UpperLetters ==
  <<"A", "B", "C", "D", "E", "F", "G", "H", "I", "J", "K", "L", "M", "N", "O", "P", "Q", "R",
    "S", "T", "U", "V", "W", "X", "Y", "Z", "A'", "E'", "I'", "O'", "U'">>

LowerLetters ==
  <<"a", "b", "c", "d", "e", "f", "g", "h", "i", "j", "k", "l", "m", "n", "o", "p", "q", "r",
    "s", "t", "u", "v", "w", "x", "y", "z", "a'", "e'", "i'", "o'", "u'">>

\* str.lower(), character by character
LowerChar(c) ==
  IF \E j \in 1..Len(UpperLetters) : UpperLetters[j] = c
  THEN LowerLetters[CHOOSE j \in 1..Len(UpperLetters) : UpperLetters[j] = c]
  ELSE c

Lower(s) == [j \in 1..Len(s) |-> LowerChar(s[j])]

\* s.endswith(suf)
EndsWith(s, suf) ==
  /\ Len(s) >= Len(suf)
  /\ SubSeq(s, Len(s) - Len(suf) + 1, Len(s)) = suf

PdfExt == <<".", "p", "d", "f">>

XlsxExt == <<".", "x", "l", "s", "x">>

\* the filter of line 169
IsPdf(f) == EndsWith(Lower(f), PdfExt)

\* int(i / total) * 100 in its place: the quotient truncated before the product
PercentTruncFirst(n, tot) == (n \div tot) * 100

\* int((i / total) * 100) of line 184.  The quotient is a float; for every
\* total below 40 the float product truncates to the exact floor of 100*i/total.
Percent(n, tot) == (n * 100) \div tot

ArchivoCampo == "Archivo"

\* line 182 left out: the file name stays the last key
RecordArchivoLast(d, archivo) == Put(d, ArchivoCampo, archivo)

\* lines 181-182: the file name is added, then the dict is rebuilt with it first
Record(d, archivo) ==
  LET d1 == Put(d, ArchivoCampo, archivo)
      NotArchivo(key) == key # ArchivoCampo
      orden == <<ArchivoCampo>> \o SelectSeq(Keys(d1), NotArchivo)
  IN [j \in 1..Len(orden) |-> [campo |-> orden[j], valor |-> Get(d1, orden[j])]]

\* lines 189-190
WithXlsx(path) == IF EndsWith(path, XlsxExt) THEN path ELSE path \o XlsxExt

\* line 188 left out: the table is written whatever the dialog returned
ExportAlways(path, rows, written) == Append(written, [path |-> WithXlsx(path), rows |-> rows])

\* lines 188-192: the tables written so far, after the dialog returned path
ExportIf(path, rows, written) ==
  IF path # <<>> THEN Append(written, [path |-> WithXlsx(path), rows |-> rows]) ELSE written

(***************************************************************************)
(* The state: one call of extract_fields (texto, k, resultado), two passes *)
(* of its normalization (raw_text, once), and the window's process_pdfs.   *)
(***************************************************************************)

VARIABLES
  pc,             \* where the running function is
  raw_text,       \* the str extract_fields was called with
  texto,          \* extract_fields: its local texto
  k,              \* extract_fields: the rule the loop of line 69 is at
  resultado,      \* extract_fields: its local resultado
  once,           \* texto after one pass of lines 41-47
  listing,        \* os.listdir(folder_path)
  archivos_pdf,   \* process_pdfs: its local archivos_pdf
  total,          \* process_pdfs: its local total
  i,              \* process_pdfs: the files the loop of line 176 has done
  leidos,         \* what get_text returned for each of them
  fallido,        \* the files for which get_text raised
  resultados,     \* process_pdfs: its local resultados
  progress,       \* self.progress.value()
  progress_antes, \* its value when process_pdfs was called
  reports,        \* the values line 184 has set in this call, in order
  warned,         \* the warning of line 172 was shown
  prompts,        \* how many times line 187 asked for a path in this call
  save_path,      \* what it returned
  exports         \* the tables line 192 wrote in this call

extractVars == <<raw_text, texto, k, resultado, once>>

batchVars ==
  <<listing, archivos_pdf, total, i, leidos, fallido, resultados, progress, progress_antes,
    reports, warned, prompts, save_path, exports>>

vars == <<pc, extractVars, batchVars>>

\* a new window (lines 103-128), no folder chosen yet; the value of a new
\* QProgressBar is -1
WindowInit ==
  /\ listing = <<>>
  /\ archivos_pdf = <<>>
  /\ total = 0
  /\ i = 0
  /\ leidos = <<>>
  /\ fallido = <<>>
  /\ resultados = <<>>
  /\ progress = -1
  /\ progress_antes = -1
  /\ reports = <<>>
  /\ warned = FALSE
  /\ prompts = 0
  /\ save_path = <<>>
  /\ exports = <<>>

\* no call of extract_fields under way
NoCall ==
  /\ raw_text = <<>>
  /\ texto = <<>>
  /\ k = 0
  /\ resultado = <<>>
  /\ once = <<>>

RECURSIVE Concat(_)
Concat(ss) == IF ss = <<>> THEN <<>> ELSE Head(ss) \o Concat(Tail(ss))

\* the sequences of at most n elements of S
SeqsUpTo(S, n) == UNION {[1..m -> S] : m \in 0..n}

(***************************************************************************)
(* SpecExtract: extract_fields on each text of a bounded set, one          *)
(* iteration of its loop a step.  A text is a sequence of blocks, a block  *)
(* a label of the template followed by a value.                            *)
(***************************************************************************)

\* how many blocks a text is made of, at most
MaxBlocks == 2

\* 'RFC:\n', the literal of line 52
LblRFC == <<"R", "F", "C", ":", "\n">>

\* 'Lugar y Fecha de Emision', the literal of line 65, on a line of its own
LblFecha ==
  <<"\n", "L", "u", "g", "a", "r", " ", "y", " ", "F", "e", "c", "h", "a", " ", "d", "e", " ",
    "E", "m", "i", "s", "i", "o'", "n", "\n">>

\* 'Entre Calle:' and 'Y Calle:', the literals of lines 63 and 64
LblEntreCalle == <<"E", "n", "t", "r", "e", " ", "C", "a", "l", "l", "e", ":">>

LblYCalle == <<"\n", "Y", " ", "C", "a", "l", "l", "e", ":">>

Labels == {LblRFC, LblFecha, LblEntreCalle, LblYCalle, ActividadesMarker}

Values == {<<>>, <<"A", "B">>, <<"A", "A", "B", "B">>, <<" ", "N", "/", "A", " ">>}

Blocks == {l \o v : l \in Labels, v \in Values}

Texts == {Concat(bs) : bs \in SeqsUpTo(Blocks, MaxBlocks)}

InitExtract ==
  /\ pc = "call"
  /\ raw_text \in Texts
  /\ texto = raw_text
  /\ k = 0
  /\ resultado = <<>>
  /\ once = <<>>
  /\ WindowInit

\* lines 41-47, then line 68
NormalizeStep ==
  /\ pc = "call"
  /\ texto' = Normalize(texto)
  /\ once' = texto'
  /\ k' = 1
  /\ resultado' = <<>>
  /\ pc' = "rules"
  /\ UNCHANGED <<raw_text, batchVars>>

\* lines 69-76: the iteration for rule k
RuleStep ==
  /\ pc = "rules"
  /\ k <= Len(patrones)
  /\ LET r == ExtractCampo(resultado, patrones[k], texto)
     IN /\ resultado' = r.resultado
        /\ pc' = IF r.raised THEN "raised" ELSE "rules"
        /\ k' = IF r.raised THEN k ELSE k + 1
  /\ UNCHANGED <<raw_text, texto, once, batchVars>>

\* line 78
ReturnStep ==
  /\ pc = "rules"
  /\ k > Len(patrones)
  /\ pc' = "return"
  /\ UNCHANGED <<extractVars, batchVars>>

NextExtract == NormalizeStep \/ RuleStep \/ ReturnStep

SpecExtract == InitExtract /\ [][NextExtract]_vars

(***************************************************************************)
(* SpecNorm: lines 41-47 applied to a text, and again to what they gave.   *)
(* A text is a sequence of pieces: markers, footers, and parts of them.    *)
(***************************************************************************)

\* how many pieces a text is made of, at most
MaxNormPieces == 3

\* 'Pagina  [2] ' and 'de [2]', the two parts of a footer
FooterHead == SubSeq(Footer("2"), 1, 12)

FooterTail == SubSeq(Footer("2"), 13, 18)

\* 'Actividades ' and 'Economicas:', the two parts of the marker of line 41
ActividadesHead == SubSeq(ActividadesMarker, 1, 12)

ActividadesTail == SubSeq(ActividadesMarker, 13, Len(ActividadesMarker))

NormPieces ==
  {Footer("2"), Footer("3"), FooterHead, FooterTail, ActividadesHead, ActividadesTail,
   PrivacidadMarker, <<"A">>}

NormTexts == {Concat(ps) : ps \in SeqsUpTo(NormPieces, MaxNormPieces)}

InitNorm ==
  /\ pc = "n0"
  /\ raw_text \in NormTexts
  /\ texto = raw_text
  /\ k = 0
  /\ resultado = <<>>
  /\ once = <<>>
  /\ WindowInit

\* lines 41-47 on the text given
NormalizeOnce ==
  /\ pc = "n0"
  /\ texto' = Normalize(texto)
  /\ once' = texto'
  /\ pc' = "n1"
  /\ UNCHANGED <<raw_text, k, resultado, batchVars>>

\* lines 41-47 on their own output
NormalizeAgain ==
  /\ pc = "n1"
  /\ texto' = Normalize(texto)
  /\ pc' = "n2"
  /\ UNCHANGED <<raw_text, k, resultado, once, batchVars>>

NextNorm == NormalizeOnce \/ NormalizeAgain

SpecNorm == InitNorm /\ [][NextNorm]_vars

(***************************************************************************)
(* Spec: the window.  select_folder (lines 130-143) calls process_pdfs on  *)
(* the folder chosen; one iteration of its loop is a step.                 *)
(***************************************************************************)

\* how many entries the folder chosen holds, at most
MaxFiles == 3

\* 'a.pdf', 'b.PDF', 'c.txt', 'd.pdf'
FileNames ==
  {<<"a", ".", "p", "d", "f">>, <<"b", ".", "P", "D", "F">>, <<"c", ".", "t", "x", "t">>,
   <<"d", ".", "p", "d", "f">>}

\* a directory listing: names in any order, none twice
Listings ==
  {l \in SeqsUpTo(FileNames, MaxFiles) : \A a, b \in 1..Len(l) : a # b => l[a] # l[b]}

\* a constancia with an RFC
DocFiscalA == FiscalMarker \o <<"\n">> \o LblRFC \o <<"A", "B">>

\* a text with the marker after its first line, and no field
DocFiscalB == <<"A", "\n">> \o FiscalMarker

\* an RFC, and the marker in another casing
DocOther == LblRFC \o <<"A", "B", "\n">> \o Lower(FiscalMarker)

\* what get_text returns for a file it can read
Docs == {DocFiscalA, DocFiscalB, DocOther}


\* what QFileDialog.getSaveFileName returns: '' (cancelled), 'out', 'out.xlsx'
SavePaths == {<<>>, <<"o", "u", "t">>, <<"o", "u", "t">> \o XlsxExt}

Init ==
  /\ pc = "idle"
  /\ NoCall
  /\ WindowInit

\* lines 141-143 with a folder chosen, then lines 169-175
SelectFolder ==
  /\ pc = "idle"
  /\ \E l \in Listings :
       /\ listing' = l
       /\ archivos_pdf' = SelectSeq(l, IsPdf)
  /\ total' = Len(archivos_pdf')
  /\ warned' = (total' = 0)
  /\ pc' = IF total' = 0 THEN "returned" ELSE "loop"
  /\ resultados' = <<>>
  /\ i' = 0
  /\ leidos' = <<>>
  /\ fallido' = <<>>
  /\ reports' = <<>>
  /\ prompts' = 0
  /\ save_path' = <<>>
  /\ exports' = <<>>
  /\ progress_antes' = progress
  /\ UNCHANGED <<progress, extractVars>>

\* lines 176-185: one iteration, get_text returning t
ProcessFile ==
  /\ pc = "loop"
  /\ i < total
  /\ \E t \in Docs :
       LET archivo == archivos_pdf[i + 1]
           r == extract_fields(t)
           threw == is_fiscal(t) /\ r.raised
       IN /\ leidos' = Append(leidos, t)
          /\ resultados' = IF is_fiscal(t) /\ ~r.raised
                           THEN Append(resultados, Record(r.resultado, archivo))
                           ELSE resultados
          /\ progress' = IF threw THEN progress ELSE Percent(i + 1, total)
          /\ reports' = IF threw THEN reports ELSE Append(reports, Percent(i + 1, total))
          /\ i' = IF threw THEN i ELSE i + 1
          /\ pc' = IF threw THEN "raised" ELSE IF i + 1 = total THEN "save" ELSE "loop"
  /\ UNCHANGED <<extractVars, listing, archivos_pdf, total, fallido, progress_antes, warned,
                 prompts, save_path, exports>>

\* line 178 with get_text raising (lines 21-23): nothing catches it, and the
\* exception leaves process_pdfs
GetTextRaises ==
  /\ pc = "loop"
  /\ i < total
  /\ fallido' = Append(fallido, archivos_pdf[i + 1])
  /\ pc' = "raised"
  /\ UNCHANGED <<extractVars, listing, archivos_pdf, total, i, leidos, resultados, progress,
                 progress_antes, reports, warned, prompts, save_path, exports>>

\* lines 187-194
SaveDialog ==
  /\ pc = "save"
  /\ \E path \in SavePaths :
       /\ save_path' = path
       /\ exports' = ExportIf(path, resultados, exports)
  /\ prompts' = prompts + 1
  /\ progress' = 0
  /\ pc' = "returned"
  /\ UNCHANGED <<extractVars, listing, archivos_pdf, total, i, leidos, fallido, resultados,
                 progress_antes, reports, warned>>

\* process_pdfs has returned (line 173, or after line 194) and select_folder
\* with it: their locals are gone, the window waits for the next click
BackToIdle ==
  /\ pc = "returned"
  /\ pc' = "idle"
  /\ listing' = <<>>
  /\ archivos_pdf' = <<>>
  /\ total' = 0
  /\ i' = 0
  /\ leidos' = <<>>
  /\ fallido' = <<>>
  /\ resultados' = <<>>
  /\ reports' = <<>>
  /\ warned' = FALSE
  /\ prompts' = 0
  /\ save_path' = <<>>
  /\ exports' = <<>>
  /\ progress_antes' = progress
  /\ UNCHANGED <<progress, extractVars>>

Next == SelectFolder \/ ProcessFile \/ GetTextRaises \/ SaveDialog \/ BackToIdle

Spec == Init /\ [][Next]_vars

(***************************************************************************)
(* The claims.                                                             *)
(***************************************************************************)

\* the field names of the catalog, in its order
CatalogNames == [j \in 1..Len(patrones) |-> patrones[j].campo]

PatronOf(campo) == patrones[CHOOSE j \in 1..Len(patrones) : patrones[j].campo = campo].patron

\* C1: extract_fields never raises, and the map it returns has exactly one
\* entry for each of the 16 fields of the catalog: after the iteration for
\* rule k the keys are the first k names, at the return they are all of them.
C1_KeysAreCatalog ==
  /\ pc # "raised"
  /\ Len(patrones) = 16
  /\ pc = "rules" => Keys(resultado) = SubSeq(CatalogNames, 1, k - 1)
  /\ pc = "return" =>
       /\ Len(resultado) = Cardinality({CatalogNames[j] : j \in 1..Len(CatalogNames)})
       /\ {resultado[j].campo : j \in 1..Len(resultado)}
            = {CatalogNames[j] : j \in 1..Len(CatalogNames)}

\* a call that returned with a one-group and a two-group rule matched and
\* other rules not
C1_Witness ==
  /\ pc = "return"
  /\ Get(resultado, RFCCampo) # NA
  /\ Get(resultado, FechaCampo) # NA
  /\ Get(resultado, "CURP") = NA

\* C3 (as claimed): every value extract_fields returns is "N/A" or a
\* non-empty string with no whitespace at either end.
C3_ValuesTrimmedNonEmpty ==
  pc = "return" =>
    \A j \in 1..Len(resultado) :
      \/ resultado[j].valor = NA
      \/ /\ resultado[j].valor # <<>>
         /\ Strip(resultado[j].valor) = resultado[j].valor

\* C5 (as claimed): when RFC was resolved to a (non-empty) value and the
\* value the issuance rule builds from its groups contains it, the issuance
\* value returned does not contain it; the RFC entry exists when the
\* issuance rule is reached.
C5_RFCRemoved ==
  /\ (pc = "rules" /\ k <= Len(patrones) /\ patrones[k].campo = FechaCampo)
       => HasKey(resultado, RFCCampo)
  /\ pc = "return" =>
       LET rfc == Get(resultado, RFCCampo)
           m == search(PatronOf(FechaCampo), texto)
       IN (rfc # NA /\ rfc # <<>> /\ m.ok
             /\ Contains(GroupValue(m, PatronOf(FechaCampo), texto), rfc))
            => ~Contains(Get(resultado, FechaCampo), rfc)

\* C6 (as claimed): when the RFC rule does not match, the issuance value
\* returned is the value built from the groups of the issuance rule, unchanged.
C6_FechaUnmodified ==
  pc = "return" =>
    LET m == search(PatronOf(FechaCampo), texto)
    IN (~search(PatronOf(RFCCampo), texto).ok /\ m.ok)
         => Get(resultado, FechaCampo) = GroupValue(m, PatronOf(FechaCampo), texto)

\* a text with neither truncation marker and none of the five footers
Clean(s) ==
  /\ ~Contains(s, ActividadesMarker)
  /\ ~Contains(s, PrivacidadMarker)
  /\ \A n \in {"2", "3", "4", "5", "6"} : ~Contains(s, Footer(n))

\* C7 (as claimed): the output of the normalization holds no marker and no
\* footer, and a second pass leaves it as it is.
C7_Idempotent == pc = "n2" => (Clean(once) /\ texto = once)

\* C7 (as amended): a second pass leaves the output of the first as it is
\* exactly when that output holds neither marker and none of the footers.
C7_IdempotentIffClean == pc = "n2" => (texto = once <=> Clean(once))

\* two passes over a text the first pass changed into a clean, non-empty one
C7_Witness ==
  /\ pc = "n2"
  /\ Clean(once)
  /\ once # raw_text
  /\ once # <<>>
  /\ texto = once

\* C2 (as claimed): a file for which get_text fails does not end the batch.
C2_FailureDoesNotAbort == fallido # <<>> => pc # "raised"

\* the files done whose text holds the marker, and the place of each among them
FiscalIdx == {j \in 1..i : Contains(leidos[j], FiscalMarker)}

Rank(j) == Cardinality({h \in FiscalIdx : h <= j})

\* C4: resultados holds one Record for each file done whose raw text holds
\* the marker, none for another file, in the order of the listing; once the
\* loop is over every candidate file is done.
C4_OneRecordPerFiscalFile ==
  /\ Len(leidos) = i
  /\ pc \in {"save", "returned"} /\ ~warned => i = total
  /\ Len(resultados) = Cardinality(FiscalIdx)
  /\ \A j \in FiscalIdx : Get(resultados[Rank(j)], ArchivoCampo) = archivos_pdf[j]

\* the loop over three files, two of them fiscal with the same text, one not
C4_Witness ==
  /\ pc = "save"
  /\ total = 3
  /\ Len(resultados) = 2
  /\ leidos[1] = leidos[3]
  /\ Get(resultados[1], ArchivoCampo) # Get(resultados[2], ArchivoCampo)

\* C8: one value is reported after each file, fiscal or not; the i-th is the
\* integer part of 100*i/total, so the values never decrease and the one
\* after the last file is 100.
C8_ProgressAfterEachFile ==
  /\ Len(reports) = i
  /\ \A j \in 1..Len(reports) :
       /\ reports[j] * total <= j * 100
       /\ j * 100 < (reports[j] + 1) * total
  /\ \A j \in 1..(Len(reports) - 1) : reports[j] <= reports[j + 1]
  /\ (pc = "loop" /\ i > 0) => progress = reports[i]
  /\ pc = "save" => (progress = 100 /\ reports[total] = 100)

\* the loop over three files, not all fiscal, is over
C8_Witness ==
  /\ pc = "save"
  /\ total = 3
  /\ Len(resultados) = 1
  /\ reports = <<33, 66, 100>>

\* the keys of a Record
RecordKeys == <<ArchivoCampo>> \o CatalogNames

\* a step of a running call keeps the Records resultados holds
RecordsKept ==
  pc \in {"loop", "save"} =>
    /\ Len(resultados') >= Len(resultados)
    /\ \A j \in 1..Len(resultados) : resultados'[j] = resultados[j]

\* C9: the keys of every Record of resultados are 'Archivo', then the field
\* names in catalog order; a Record appended is not changed while the call
\* that appended it runs.
C9_RecordKeysFixed ==
  /\ [](\A j \in 1..Len(resultados) : Keys(resultados[j]) = RecordKeys)
  /\ [][RecordsKept]_vars

\* a second Record has been appended after the first
C9_Witness ==
  /\ pc = "loop"
  /\ i = 2
  /\ Len(resultados) = 2

\* C10: at most one export per call, after the last file and only for a
\* non-empty path; with no PDF file the call returns after the warning with
\* no prompt, no export and the progress value as it was; after a non-empty
\* batch the progress value is 0, export or not.
C10_ExportOnceAfterLoop ==
  /\ Len(exports) <= 1
  /\ prompts <= 1
  /\ prompts = 1 => (pc = "returned" /\ total > 0 /\ i = total)
  /\ exports # <<>> <=> (prompts = 1 /\ save_path # <<>>)
  /\ exports # <<>> => exports[1].rows = resultados
  /\ warned => /\ total = 0
               /\ pc = "returned"
               /\ prompts = 0
               /\ progress = progress_antes
  /\ pc = "returned" => IF total = 0 THEN warned ELSE (prompts = 1 /\ progress = 0)

\* a call that wrote its Records
C10_Witness ==
  /\ pc = "returned"
  /\ exports # <<>>
  /\ exports[1].rows # <<>>
  /\ progress = 0

=============================================================================
